---- MODULE Spec2Model ----
(***************************************************************************)
(* Model of annotation-to-graph: the mutation generator                    *)
(* (src/src/generate-mutations.ts, generateMutationBatch and its helpers), *)
(* the category mapping table (src/src/types.ts) and the load CLI          *)
(* (main / executeMutation in src/src/generate-mutations.ts, lines 196 on).*)
(*                                                                         *)
(* A text is a sequence of one-character strings.  A mutation's wire text  *)
(* is a fixed template per shape with interpolated holes; it is modelled   *)
(* as a record holding the template's variable parts (the added type, the  *)
(* interpolated field values, the upsert argument, the selected field).    *)
(* An input field that a template does not contain is the empty set, one   *)
(* that it contains is the singleton of the interpolated value.            *)
(***************************************************************************)
EXTENDS Integers, Sequences, FiniteSets, TLC

\* ------------------------------------------------------------------ bounds
MaxEntities == 2
MaxRels == 1
MaxClock == 1
MaxTextLen == 4

\* ------------------------------------------------------- characters, texts
UpperLetters == <<"A", "B", "C", "D", "E", "F", "G", "H", "I", "J", "K", "L", "M",
                  "N", "O", "P", "Q", "R", "S", "T", "U", "V", "W", "X", "Y", "Z">>
LowerLetters == <<"a", "b", "c", "d", "e", "f", "g", "h", "i", "j", "k", "l", "m",
                  "n", "o", "p", "q", "r", "s", "t", "u", "v", "w", "x", "y", "z">>
Digits == {"0", "1", "2", "3", "4", "5", "6", "7", "8", "9"}

\* the characters of the model's alphabet that String.prototype.trim strips
\* and that the regular expression class \s matches
Whitespace == {" ", "\n", "\r", "\t"}

\* the class [a-z0-9_\-] of generateNameId's last replace
IdChars == {LowerLetters[i] : i \in DOMAIN LowerLetters} \cup Digits \cup {"_", "-"}

SeqsUpTo(S, n) == UNION {[1..k -> S] : k \in 0..n}

toLowerChar(c) ==
    IF \E i \in DOMAIN UpperLetters : UpperLetters[i] = c
    THEN LowerLetters[CHOOSE i \in DOMAIN UpperLetters : UpperLetters[i] = c]
    ELSE c

toLowerCase(s) == [i \in DOMAIN s |-> toLowerChar(s[i])]

RECURSIVE trimStart(_)
trimStart(s) ==
    IF s # <<>> /\ Head(s) \in Whitespace THEN trimStart(Tail(s)) ELSE s

RECURSIVE trimEnd(_)
trimEnd(s) ==
    IF s # <<>> /\ s[Len(s)] \in Whitespace
    THEN trimEnd(SubSeq(s, 1, Len(s) - 1))
    ELSE s

trim(s) == trimEnd(trimStart(s))

\* s.replace(/c/g, repl) for a one-character pattern c
RECURSIVE replaceAll(_, _, _)
replaceAll(s, c, repl) ==
    IF s = <<>> THEN <<>>
    ELSE (IF Head(s) = c THEN repl ELSE <<Head(s)>>) \o replaceAll(Tail(s), c, repl)

\* s.replace(/\s+/g, '_'): every maximal whitespace run becomes one underscore
RECURSIVE collapseWhitespace(_)
collapseWhitespace(s) ==
    IF s = <<>> THEN <<>>
    ELSE IF Head(s) \in Whitespace
         THEN <<"_">> \o collapseWhitespace(trimStart(s))
         ELSE <<Head(s)>> \o collapseWhitespace(Tail(s))

\* s.replace(/[^a-z0-9_\-]/g, '')
stripNonIdChars(s) == SelectSeq(s, LAMBDA c : c \in IdChars)

\* ------------------------------------------------------------ mapping table
Categories ==
    {"organization", "program", "service", "benefit", "citizen_attribute", "value",
     "official_role", "region", "delivery_node", "document", "domain_issue"}

CATEGORY_TYPE_MAP ==
    [c \in Categories |->
       CASE c = "organization" ->
              [dgraphType |-> "_Indian_Union_Government_Ministry_",
               nameIdPrefix |-> <<"o", "r", "g">>,
               nameField |-> "indian_union_government_ministry"]
         [] c = "program" ->
              [dgraphType |-> "_Indian_Union_Government_Ministry_Program_",
               nameIdPrefix |-> <<"p", "r", "o", "g">>,
               nameField |-> "indian_union_government_ministry_program"]
         [] c = "service" ->
              [dgraphType |-> "_Indian_Union_Government_Service_",
               nameIdPrefix |-> <<"s", "v", "c">>,
               nameField |-> "indian_union_government_service"]
         [] c = "benefit" ->
              [dgraphType |-> "_Indian_Union_Government_Service_Benefit_",
               nameIdPrefix |-> <<"b", "e", "n">>,
               nameField |-> "indian_union_government_service_benefit"]
         [] c = "citizen_attribute" ->
              [dgraphType |-> "_Citizen_Attribute_Category_",
               nameIdPrefix |-> <<"c", "a", "t", "t", "r">>,
               nameField |-> "citizen_attribute_category"]
         [] c = "value" ->
              [dgraphType |-> "_Metric_",
               nameIdPrefix |-> <<"m", "e", "t", "r", "i", "c">>,
               nameField |-> "metric"]
         [] c = "official_role" ->
              [dgraphType |-> "_Indian_Government_Official_Role_",
               nameIdPrefix |-> <<"r", "o", "l", "e">>,
               nameField |-> "indian_government_official_role"]
         [] c = "region" ->
              [dgraphType |-> "_Indian_State_Union_Territory_",
               nameIdPrefix |-> <<"r", "e", "g", "i", "o", "n">>,
               nameField |-> "indian_state_union_territory"]
         [] c = "delivery_node" ->
              [dgraphType |-> "_Indian_Union_Government_Service_Delivery_Node_",
               nameIdPrefix |-> <<"d", "n", "o", "d", "e">>,
               nameField |-> "indian_union_government_service_delivery_node"]
         [] c = "document" ->
              [dgraphType |-> "_Source_",
               nameIdPrefix |-> <<"d", "o", "c">>,
               nameField |-> "map_data_source_name"]
         [] c = "domain_issue" ->
              [dgraphType |-> "_Domain_Issue_",
               nameIdPrefix |-> <<"i", "s", "s", "u", "e">>,
               nameField |-> "domain_issue"]]

\* ---------------------------------------------------------------- generator
\* mutant: every whitespace character becomes an underscore of its own
generateNameIdNoCollapse(entity) ==
    LET mapping == CATEGORY_TYPE_MAP[entity.category]
        lowered == trim(toLowerCase(entity.text))
        underscored == [i \in DOMAIN lowered |->
                          IF lowered[i] \in Whitespace THEN "_" ELSE lowered[i]]
    IN  mapping.nameIdPrefix \o <<":", ":">> \o stripNonIdChars(underscored)

generateNameId(entity) ==
    LET mapping == CATEGORY_TYPE_MAP[entity.category]
        normalized == stripNonIdChars(collapseWhitespace(trim(toLowerCase(entity.text))))
    IN  mapping.nameIdPrefix \o <<":", ":">> \o normalized

\* mutant: the backslash is replaced last, after the other four
escapeGraphQLBackslashLast(s) ==
    LET s1 == replaceAll(s, "\"", <<"\\", "\"">>)
        s2 == replaceAll(s1, "\n", <<"\\", "n">>)
        s3 == replaceAll(s2, "\r", <<"\\", "r">>)
        s4 == replaceAll(s3, "\t", <<"\\", "t">>)
    IN  replaceAll(s4, "\\", <<"\\", "\\">>)

escapeGraphQL(s) ==
    LET s1 == replaceAll(s, "\\", <<"\\", "\\">>)
        s2 == replaceAll(s1, "\"", <<"\\", "\"">>)
        s3 == replaceAll(s2, "\n", <<"\\", "n">>)
        s4 == replaceAll(s3, "\r", <<"\\", "r">>)
    IN  replaceAll(s4, "\t", <<"\\", "t">>)

\* mutant: the key is the raw text
nameKeyRaw(entity) == entity.text

\* the key of the uniqueNames map (line 60)
nameKey(entity) == trim(entity.text)

\* the for-loop of generateNameMutations: a Map keeps its keys in insertion
\* order and `has` guards `set`, so the map is the sequence of first-seen
\* <<key, entity>> pairs
RECURSIVE uniqueNames(_, _)
uniqueNames(entities, map) ==
    IF entities = <<>> THEN map
    ELSE LET entity == Head(entities)
             key == nameKey(entity)
             has == \E i \in DOMAIN map : map[i][1] = key
         IN  uniqueNames(Tail(entities),
                         IF has THEN map ELSE Append(map, <<key, entity>>))

\* mutant: the name is the raw text, not trimmed
nameMutationUntrimmed(entity) ==
    [description |-> [label |-> "_Name_ node", text |-> entity.text, category |-> {}],
     mutation |-> [add |-> "_Name_",
                   name |-> {escapeGraphQL(entity.text)},
                   categorical_value |-> {},
                   name_id |-> {},
                   names |-> {},
                   node_created_on |-> {},
                   upsert |-> TRUE,
                   selection |-> "name"]]

\* the object literal of lines 66-77
nameMutation(entity) ==
    [description |-> [label |-> "_Name_ node", text |-> entity.text, category |-> {}],
     mutation |-> [add |-> "_Name_",
                   name |-> {escapeGraphQL(trim(entity.text))},
                   categorical_value |-> {},
                   name_id |-> {},
                   names |-> {},
                   node_created_on |-> {},
                   upsert |-> TRUE,
                   selection |-> "name"]]

generateNameMutations(entities) ==
    LET map == uniqueNames(entities, <<>>)
    IN  [i \in DOMAIN map |-> nameMutation(map[i][2])]

\* mutant: every category gets the default shape
entityMutationDefaultOnly(entity, now) ==
    [description |-> [label |-> CATEGORY_TYPE_MAP[entity.category].dgraphType,
                      text |-> entity.text, category |-> {entity.category}],
     mutation |-> [add |-> CATEGORY_TYPE_MAP[entity.category].dgraphType,
                   name |-> {},
                   categorical_value |-> {},
                   name_id |-> {escapeGraphQL(generateNameId(entity))},
                   names |-> {escapeGraphQL(trim(entity.text))},
                   node_created_on |-> {now},
                   upsert |-> TRUE,
                   selection |-> "name_id"]]

\* the callback of entities.map (lines 91-165); now is the value read from
\* the clock on line 95
entityMutation(entity, now) ==
    LET mapping == CATEGORY_TYPE_MAP[entity.category]
        nameId == generateNameId(entity)
        dgType == mapping.dgraphType
    IN  CASE entity.category = "value" ->
               [description |-> [label |-> "_Data_Value_", text |-> entity.text,
                                 category |-> {entity.category}],
                mutation |-> [add |-> "_Data_Value_",
                              name |-> {},
                              categorical_value |-> {escapeGraphQL(trim(entity.text))},
                              name_id |-> {},
                              names |-> {},
                              node_created_on |-> {},
                              upsert |-> FALSE,
                              selection |-> "categorical_value"]]
          [] entity.category = "benefit" ->
               [description |-> [label |-> dgType, text |-> entity.text,
                                 category |-> {entity.category}],
                mutation |-> [add |-> dgType,
                              name |-> {},
                              categorical_value |-> {},
                              name_id |-> {},
                              names |-> {escapeGraphQL(trim(entity.text))},
                              node_created_on |-> {now},
                              upsert |-> FALSE,
                              selection |-> "id"]]
          [] entity.category = "document" ->
               [description |-> [label |-> dgType, text |-> entity.text,
                                 category |-> {entity.category}],
                mutation |-> [add |-> dgType,
                              name |-> {},
                              categorical_value |-> {},
                              name_id |-> {escapeGraphQL(nameId)},
                              names |-> {escapeGraphQL(trim(entity.text))},
                              node_created_on |-> {},
                              upsert |-> TRUE,
                              selection |-> "name_id"]]
          [] OTHER ->
               [description |-> [label |-> dgType, text |-> entity.text,
                                 category |-> {entity.category}],
                mutation |-> [add |-> dgType,
                              name |-> {},
                              categorical_value |-> {},
                              name_id |-> {escapeGraphQL(nameId)},
                              names |-> {escapeGraphQL(trim(entity.text))},
                              node_created_on |-> {now},
                              upsert |-> TRUE,
                              selection |-> "name_id"]]

\* mutant: typed-node mutations are de-duplicated like entry nodes
generateEntityMutationsUnique(entities, readings) ==
    LET map == uniqueNames(entities, <<>>)
    IN  [i \in DOMAIN map |-> entityMutation(map[i][2], readings[i])]

\* mutant: every shape carries the creation timestamp
generateEntityMutationsAllStamped(entities, readings) ==
    [i \in DOMAIN entities |->
        [entityMutation(entities[i], readings[i]) EXCEPT
            !.mutation.node_created_on = {readings[i]}]]

\* readings[i] is what new Date() returns while entity i is mapped
generateEntityMutations(entities, readings) ==
    [i \in DOMAIN entities |-> entityMutation(entities[i], readings[i])]

\* mutant: a repeated category is set to 1 again instead of incremented
RECURSIVE countCategoriesNoIncrement(_, _)
countCategoriesNoIncrement(entities, categoryCounts) ==
    IF entities = <<>> THEN categoryCounts
    ELSE countCategoriesNoIncrement(
             Tail(entities),
             [c \in DOMAIN categoryCounts \cup {Head(entities).category} |->
                IF c = Head(entities).category THEN 1 ELSE categoryCounts[c]])

\* the loop of lines 176-179; a Record's absent key reads as undefined, and
\* (undefined || 0) + 1 is 1
RECURSIVE countCategories(_, _)
countCategories(entities, categoryCounts) ==
    IF entities = <<>> THEN categoryCounts
    ELSE LET e == Head(entities)
             old == IF e.category \in DOMAIN categoryCounts
                    THEN categoryCounts[e.category] ELSE 0
         IN  countCategories(
                 Tail(entities),
                 [c \in DOMAIN categoryCounts \cup {e.category} |->
                    IF c = e.category THEN old + 1 ELSE categoryCounts[c]])

\* mutant: one relationship mutation per relationship of the document
batchRelationshipsTranslated(annotation) ==
    [i \in DOMAIN annotation.relationships |->
        [description |-> [label |-> "relationship", text |-> <<>>, category |-> {}],
         mutation |-> [add |-> "relationship",
                       name |-> {},
                       categorical_value |-> {},
                       name_id |-> {},
                       names |-> {},
                       node_created_on |-> {},
                       upsert |-> TRUE,
                       selection |-> "id"]]]

\* the relationships member of the returned batch (line 186)
batchRelationships(annotation) == <<>>

\* mutant: the summary counts the relationships of the document
summaryTotalRelationshipsOfInput(annotation) == Len(annotation.relationships)

\* the totalRelationships member of the summary (line 190)
summaryTotalRelationships(annotation) == 0

generateMutationBatch(annotation, readings) ==
    LET nameNodes == generateNameMutations(annotation.entities)
        entityNodes == generateEntityMutations(annotation.entities, readings)
        categoryCounts == countCategories(annotation.entities, <<>>)
    IN  [documentId |-> annotation.document.id,
         documentPath |-> annotation.document.path,
         nameNodes |-> nameNodes,
         entityNodes |-> entityNodes,
         relationships |-> batchRelationships(annotation),
         summary |-> [totalNameNodes |-> Len(nameNodes),
                      totalEntityNodes |-> Len(entityNodes),
                      totalRelationships |-> summaryTotalRelationships(annotation),
                      categoryCounts |-> categoryCounts]]

\* ------------------------------------------------------------------ inputs
\* texts of the generator runs: a plain text, the same text with leading and
\* trailing whitespace, and the same text in another case
GenTexts == {<<"a">>, <<" ", "a", " ">>, <<"A">>}

\* texts and categories of the load runs: one category per mutation shape
LoadTexts == {<<"a">>, <<" ", "a">>, <<"A", "\"">>}

\* texts of the repeated calls
TimeTexts == {<<"a">>, <<" ", "a">>}
LoadCategories == {"organization", "value", "benefit", "document"}

\* an entity's start and end offsets are never read by the program
Entity(texts, cats) == [text : texts, category : cats]

Relationships(k) ==
    [i \in 1..k |-> [id |-> i, source_entity_id |-> 1, target_entity_id |-> 1,
                     type |-> "administers", label |-> "label"]]

Documents(texts, cats) ==
    {[document |-> [id |-> "s-64", path |-> "18/iv/s-64", subject |-> "subject"],
      entities |-> es,
      relationships |-> Relationships(k)] :
        es \in SeqsUpTo(Entity(texts, cats), MaxEntities), k \in 0..MaxRels}

\* the values successive reads of the clock can return, from time t on
ClockReadings(n, t) ==
    {r \in [1..n -> t..MaxClock] : \A i \in 1..n : i > 1 => r[i - 1] <= r[i]}

\* ------------------------------------------------------------------- state
VARIABLES
    annotation,   \* the parsed input document
    clock,        \* the wall clock
    returned,     \* the batches the last two generateMutationBatch calls returned
    pc,           \* where the load CLI's main is
    batch,        \* main's const batch: <<>> until assigned, then <<the batch>>
    idx,          \* how many mutations of the current phase's loop are done
    inflight,     \* the request awaiting its response: {} or {mutation}
    sent,         \* history: every request handed to the transport, in order
    failures,     \* history: per phase, how many requests the transport failed
    nameSuccess, nameFail, entitySuccess, entityFail, relSuccess, relFail,
    exitCode,     \* {} while running, then {the process's exit status}
    exitSite,     \* which statement ended the process
    out           \* the values a directly called helper returned

vars == <<annotation, clock, returned, pc, batch, idx, inflight, sent, failures,
          nameSuccess, nameFail, entitySuccess, entityFail, relSuccess, relFail,
          exitCode, exitSite, out>>

loadVars == <<pc, batch, idx, inflight, sent, failures,
              nameSuccess, nameFail, entitySuccess, entityFail, relSuccess, relFail,
              exitCode, exitSite>>

counters == <<nameSuccess, nameFail, entitySuccess, entityFail, relSuccess, relFail>>

Phases == {"phase1", "phase2", "phase3"}

InitCommon ==
    /\ returned = <<>>
    /\ batch = <<>>
    /\ idx = 0
    /\ inflight = {}
    /\ sent = <<>>
    /\ failures = [p \in Phases |-> 0]
    /\ nameSuccess = 0 /\ nameFail = 0
    /\ entitySuccess = 0 /\ entityFail = 0
    /\ relSuccess = 0 /\ relFail = 0
    /\ exitCode = {}
    /\ exitSite = "none"
    /\ out = <<>>

\* ------------------------------------------- generator called as a library
\* a caller calls generateMutationBatch on the document
GenerateCall ==
    /\ pc = "library"
    /\ \E readings \in ClockReadings(Len(annotation.entities), clock) :
         LET b == generateMutationBatch(annotation, readings)
         IN  /\ returned' = IF returned = <<>> THEN <<b>>
                            ELSE <<returned[Len(returned)], b>>
             /\ clock' = IF readings = <<>> THEN clock ELSE readings[Len(readings)]
    /\ UNCHANGED <<out, annotation, loadVars>>

\* time passes between two calls
Tick ==
    /\ pc = "library"
    /\ clock < MaxClock
    /\ clock' = clock + 1
    /\ UNCHANGED <<out, annotation, returned, loadVars>>

\* calls on every document over the eleven categories, made at one instant
GenInit ==
    /\ annotation \in Documents(GenTexts, Categories)
    /\ clock = MaxClock
    /\ pc = "library"
    /\ InitCommon

GenNext == GenerateCall

GenSpec == GenInit /\ [][GenNext]_vars

\* repeated calls on one document while time passes
TimeInit ==
    /\ annotation \in Documents(TimeTexts, LoadCategories)
    /\ clock = 0
    /\ pc = "library"
    /\ InitCommon

TimeNext == GenerateCall \/ Tick

TimeSpec == TimeInit /\ [][TimeNext]_vars

\* ------------------------------------------------- helpers called directly
\* the five characters escapeGraphQL replaces and two ordinary ones, one of
\* them a letter that follows the backslash in an escape
EscapeAlphabet == {"a", "n", "\\", "\"", "\n", "\r", "\t"}

OneEntityDocument(text, category) ==
    [document |-> [id |-> "s-64", path |-> "18/iv/s-64", subject |-> "subject"],
     entities |-> <<[text |-> text, category |-> category]>>,
     relationships |-> <<>>]

\* escapeGraphQL applied to every text over the alphabet
EscapeInit ==
    /\ annotation \in {OneEntityDocument(t, "organization") :
                          t \in SeqsUpTo(EscapeAlphabet, MaxTextLen)}
    /\ clock = MaxClock
    /\ pc = "escape"
    /\ InitCommon

EscapeCall ==
    /\ pc = "escape"
    /\ out = <<>>
    /\ out' = <<escapeGraphQL(annotation.entities[1].text)>>
    /\ UNCHANGED <<annotation, clock, returned, loadVars>>

EscapeNext == EscapeCall

EscapeSpec == EscapeInit /\ [][EscapeNext]_vars

\* letters of both cases, two whitespace characters, a character outside the
\* identifier class and the hyphen
NameIdAlphabet == {"a", "Z", " ", "\t", "(", "-"}

\* the text of the README's example entity
ExampleText ==
    <<"N", "a", "t", "i", "o", "n", "a", "l", " ", "H", "e", "a", "l", "t", "h", " ",
      "A", "u", "t", "h", "o", "r", "i", "t", "y", " ", "(", "N", "H", "A", ")">>

NameIdTexts ==
    SeqsUpTo(NameIdAlphabet, MaxTextLen) \cup {ExampleText, <<"A", "_", "1">>}

\* a document in which one text is annotated twice under one category, with
\* different entity ids and offsets
TwiceAnnotated(docId, text, category) ==
    [document |-> [id |-> docId, path |-> "18/iv/s-64", subject |-> "subject"],
     entities |-> <<[id |-> "e1", text |-> text, start |-> 0, end |-> Len(text),
                     category |-> category],
                    [id |-> "e2", text |-> text, start |-> 245, end |-> 245 + Len(text),
                     category |-> category]>>,
     relationships |-> <<>>]

\* generateNameId applied to the entities of such documents
NameIdInit ==
    /\ annotation \in {TwiceAnnotated(d, t, c) :
                          d \in {"s-64", "s-65"}, t \in NameIdTexts, c \in Categories}
    /\ clock = MaxClock
    /\ pc = "nameId"
    /\ InitCommon

NameIdCall ==
    /\ pc = "nameId"
    /\ out = <<>>
    /\ out' = [i \in DOMAIN annotation.entities |-> generateNameId(annotation.entities[i])]
    /\ UNCHANGED <<annotation, clock, returned, loadVars>>

NameIdNext == NameIdCall

NameIdSpec == NameIdInit /\ [][NameIdNext]_vars

\* ---------------------------------------------------------------- load CLI
\* what the transport can answer to one POST
Responses == {"data", "emptyErrors", "errors", "networkError", "invalidJson"}

\* the responses the claim calls a failed mutation: a transport exception or
\* a response with a non-empty errors array
FailedResponses == {"errors", "networkError", "invalidJson"}

\* mutant: no try/catch, a transport exception rejects the promise
executeMutationUncaught(response) ==
    CASE response \in {"networkError", "invalidJson"} -> [success |-> FALSE, rejected |-> TRUE]
      [] response = "errors" -> [success |-> FALSE, rejected |-> FALSE]
      [] OTHER -> [success |-> TRUE, rejected |-> FALSE]

\* executeMutation's result for a response; every exception of fetch or
\* res.json() is caught (lines 232-234), so the promise never rejects
executeMutation(response) ==
    CASE response \in {"networkError", "invalidJson"} -> [success |-> FALSE, rejected |-> FALSE]
      [] response = "errors" -> [success |-> FALSE, rejected |-> FALSE]
      [] OTHER -> [success |-> TRUE, rejected |-> FALSE]

\* the sequence the loop of a phase iterates over
phaseList(p) ==
    CASE p = "phase1" -> batch[1].nameNodes
      [] p = "phase2" -> batch[1].entityNodes
      [] p = "phase3" -> batch[1].relationships

\* where main goes when the loop of phase p is over (phase 3 is guarded by
\* line 298)
afterPhase(p) ==
    CASE p = "phase1" -> "phase2"
      [] p = "phase2" -> IF Len(batch[1].relationships) > 0 THEN "phase3" ELSE "final"
      [] p = "phase3" -> "final"

\* mutant: only entry-node failures decide the exit status
finalExitCodeNamesOnly(nFail, eFail) == IF nFail > 0 THEN 1 ELSE 0

\* the condition of line 323 and the exit status it leads to
finalExitCode(nFail, eFail) == IF nFail > 0 \/ eFail > 0 THEN 1 ELSE 0

Exit(code, site) ==
    /\ pc' = "exited"
    /\ exitCode' = {code}
    /\ exitSite' = site

\* lines 238-246
ParseArgs ==
    /\ pc = "args"
    /\ \E hasFilePath \in BOOLEAN :
         IF hasFilePath
         THEN pc' = "read" /\ UNCHANGED <<exitCode, exitSite>>
         ELSE Exit(1, "usage")
    /\ UNCHANGED <<out, annotation, clock, returned, batch, idx, inflight, sent, failures,
                   counters>>

\* lines 252-259: a file that cannot be read or parsed rejects main, and the
\* handler of lines 329-332 exits
ReadInput ==
    /\ pc = "read"
    /\ \E readable \in BOOLEAN :
         IF readable
         THEN \E readings \in ClockReadings(Len(annotation.entities), clock) :
                /\ batch' = <<generateMutationBatch(annotation, readings)>>
                /\ clock' = IF readings = <<>> THEN clock ELSE readings[Len(readings)]
                /\ pc' = "phase1"
                /\ UNCHANGED <<exitCode, exitSite>>
         ELSE /\ Exit(1, "catch")
              /\ UNCHANGED <<batch, clock>>
    /\ UNCHANGED <<out, annotation, returned, idx, inflight, sent, failures, counters>>

\* the loop head of a phase and executeMutation up to its await of fetch
Send ==
    /\ pc \in Phases
    /\ inflight = {}
    /\ idx < Len(phaseList(pc))
    /\ LET m == phaseList(pc)[idx + 1]
       IN  /\ inflight' = {m}
           /\ sent' = Append(sent, [phase |-> pc, m |-> m])
    /\ UNCHANGED <<out, annotation, clock, returned, pc, batch, idx, failures, counters,
                   exitCode, exitSite>>

\* the response arrives: the rest of executeMutation and the loop body
Receive ==
    /\ pc \in Phases
    /\ inflight # {}
    /\ \E response \in Responses :
         LET result == executeMutation(response)
             ok == IF result.success THEN 1 ELSE 0
             ko == 1 - ok
         IN  /\ failures' = [failures EXCEPT
                               ![pc] = @ + (IF response \in FailedResponses THEN 1 ELSE 0)]
             /\ IF result.rejected
                THEN /\ Exit(1, "catch")
                     /\ UNCHANGED <<idx, counters>>
                ELSE /\ idx' = idx + 1
                     /\ nameSuccess' = nameSuccess + (IF pc = "phase1" THEN ok ELSE 0)
                     /\ nameFail' = nameFail + (IF pc = "phase1" THEN ko ELSE 0)
                     /\ entitySuccess' = entitySuccess + (IF pc = "phase2" THEN ok ELSE 0)
                     /\ entityFail' = entityFail + (IF pc = "phase2" THEN ko ELSE 0)
                     /\ relSuccess' = relSuccess + (IF pc = "phase3" THEN ok ELSE 0)
                     /\ relFail' = relFail + (IF pc = "phase3" THEN ko ELSE 0)
                     /\ UNCHANGED <<pc, exitCode, exitSite>>
    /\ inflight' = {}
    /\ UNCHANGED <<out, annotation, clock, returned, batch, sent>>

\* the loop of a phase is over
EndPhase ==
    /\ pc \in Phases
    /\ inflight = {}
    /\ idx = Len(phaseList(pc))
    /\ pc' = afterPhase(pc)
    /\ idx' = 0
    /\ UNCHANGED <<out, annotation, clock, returned, batch, inflight, sent, failures,
                   counters, exitCode, exitSite>>

\* lines 317-327: process.exit(1) after the warning, or main returns and the
\* process ends with status 0
Finish ==
    /\ pc = "final"
    /\ LET code == finalExitCode(nameFail, entityFail)
       IN  Exit(code, IF code = 1 THEN "warning" ELSE "return")
    /\ UNCHANGED <<out, annotation, clock, returned, batch, idx, inflight, sent, failures,
                   counters>>

Init ==
    /\ annotation \in Documents(LoadTexts, LoadCategories)
    /\ clock = MaxClock
    /\ pc = "args"
    /\ InitCommon

Next == ParseArgs \/ ReadInput \/ Send \/ Receive \/ EndPhase \/ Finish

Spec == Init /\ [][Next]_vars

\* every request returns, and main runs on whenever it can
FairSpec == Spec /\ WF_vars(Next)

\* ================================================================= claims
\* ------------------------------------------------ vocabulary of the claims
entities == annotation.entities

TrimmedText(i) == trim(entities[i].text)

\* the positions at which a trimmed text occurs for the first time
FirstOccurrences == {i \in DOMAIN entities : \A j \in 1..(i - 1) : TrimmedText(j) # TrimmedText(i)}

\* the k-th of them, in entity order
KthFirst(k) ==
    CHOOSE i \in FirstOccurrences : Cardinality({j \in FirstOccurrences : j <= i}) = k

EntryNodesMatchDistinctTexts(b) ==
    /\ Len(b.nameNodes) = Cardinality(FirstOccurrences)
    /\ \A k \in DOMAIN b.nameNodes :
         /\ b.nameNodes[k].mutation.add = "_Name_"
         /\ b.nameNodes[k].mutation.name = {escapeGraphQL(TrimmedText(KthFirst(k)))}
    /\ \A k, l \in DOMAIN b.nameNodes :
         k # l => b.nameNodes[k].mutation.name # b.nameNodes[l].mutation.name

\* C1: the entry-node mutations of a batch are, in order, one per distinct
\* trimmed entity text in order of first occurrence: equal trimmed texts share
\* one mutation, texts that differ after trimming get one each.
C1_OneEntryNodePerTrimmedText ==
    \A r \in DOMAIN returned : EntryNodesMatchDistinctTexts(returned[r])

\* two entities whose raw texts differ but trim to the same text gave one
\* entry-node mutation
C1_Witness ==
    /\ returned # <<>>
    /\ Len(entities) = 2
    /\ entities[1].text # entities[2].text
    /\ TrimmedText(1) = TrimmedText(2)
    /\ Len(returned[1].nameNodes) = 1

\* C2: a batch has exactly one typed-node mutation per entity, in entity
\* order, whether or not texts repeat, and summary.totalEntityNodes is that
\* number.
C2_OneTypedNodePerEntity ==
    \A r \in DOMAIN returned :
        /\ Len(returned[r].entityNodes) = Len(entities)
        /\ returned[r].summary.totalEntityNodes = Len(entities)
        /\ \A i \in DOMAIN entities :
             /\ returned[r].entityNodes[i].description.text = entities[i].text
             /\ returned[r].entityNodes[i].description.category = {entities[i].category}

\* two entities with the same text gave two typed-node mutations and one
\* entry-node mutation
C2_Witness ==
    /\ returned # <<>>
    /\ Len(entities) = 2
    /\ entities[1].text = entities[2].text
    /\ Len(returned[1].entityNodes) = 2
    /\ Len(returned[1].nameNodes) = 1

CountIn(categoryCounts, c) == IF c \in DOMAIN categoryCounts THEN categoryCounts[c] ELSE 0

RECURSIVE SumOver(_, _)
SumOver(f, S) ==
    IF S = {} THEN 0 ELSE LET c == CHOOSE x \in S : TRUE IN f[c] + SumOver(f, S \ {c})

\* C6: each per-category count of the summary is the number of entities of
\* that category, a category without entities has no entry, and the counts sum
\* to the number of entities.
C6_CategoryCounts ==
    \A r \in DOMAIN returned :
        LET cc == returned[r].summary.categoryCounts
        IN  /\ DOMAIN cc \subseteq Categories
            /\ \A c \in Categories :
                 CountIn(cc, c) = Cardinality({i \in DOMAIN entities : entities[i].category = c})
            /\ \A c \in DOMAIN cc : cc[c] > 0
            /\ SumOver(cc, DOMAIN cc) = Len(entities)

\* two entities of one category were counted as two
C6_Witness ==
    /\ returned # <<>>
    /\ Len(entities) = 2
    /\ entities[1].category = entities[2].category
    /\ returned[1].summary.categoryCounts[entities[1].category] = 2

\* C8 as stated: the summary's totalRelationships is the number of
\* relationships of the input document, and the relationship mutations are
\* empty.
C8_RelationshipsCounted ==
    \A r \in DOMAIN returned :
        /\ returned[r].summary.totalRelationships = Len(annotation.relationships)
        /\ returned[r].relationships = <<>>

\* C8: whatever relationships the input document has, the summary's
\* totalRelationships is 0, the length of the batch's relationship-mutation
\* sequence, which is empty.
C8_RelationshipsNotCounted ==
    \A r \in DOMAIN returned :
        /\ returned[r].summary.totalRelationships = 0
        /\ returned[r].summary.totalRelationships = Len(returned[r].relationships)
        /\ returned[r].relationships = <<>>

\* a batch was generated from a document that has relationships
C8_Witness ==
    /\ returned # <<>>
    /\ Len(annotation.relationships) > 0
    /\ returned[1].summary.totalRelationships = 0

ShapeOf(e, m) ==
    LET text == {escapeGraphQL(trim(e.text))}
        id == {escapeGraphQL(generateNameId(e))}
    IN  CASE e.category = "value" ->
               /\ m.add = "_Data_Value_"
               /\ m.categorical_value = text
               /\ m.name_id = {} /\ m.names = {} /\ m.node_created_on = {}
               /\ ~m.upsert
          [] e.category = "benefit" ->
               /\ m.add = CATEGORY_TYPE_MAP[e.category].dgraphType
               /\ m.names = text
               /\ m.node_created_on # {}
               /\ m.name_id = {} /\ m.categorical_value = {}
               /\ ~m.upsert
          [] e.category = "document" ->
               /\ m.add = CATEGORY_TYPE_MAP[e.category].dgraphType
               /\ m.name_id = id
               /\ m.names = text
               /\ m.upsert
               /\ m.node_created_on = {} /\ m.categorical_value = {}
          [] OTHER ->
               /\ m.add = CATEGORY_TYPE_MAP[e.category].dgraphType
               /\ m.name_id = id
               /\ m.names = text
               /\ m.node_created_on # {}
               /\ m.upsert
               /\ m.categorical_value = {}

C9_CallsReturnIdenticalBatches ==
    Len(returned) = 2 => returned[1] = returned[2]

\* a batch with the creation timestamps of its benefit and default-shape
\* typed-node mutations blanked
WithoutCreationTimes(b) ==
    [b EXCEPT !.entityNodes =
        [i \in DOMAIN b.entityNodes |->
            IF i \in DOMAIN entities /\ entities[i].category \notin {"value", "document"}
            THEN [b.entityNodes[i] EXCEPT !.mutation.node_created_on = {}]
            ELSE b.entityNodes[i]]]

\* C9: two calls on the same document return batches that are identical
\* except for the creation timestamp of the benefit and default-shape
\* typed-node mutations, which is the clock's value during the call; entry-node
\* mutations, value and document mutations, descriptions and summary are
\* identical.
C9_CallsDifferOnlyInCreationTimes ==
    Len(returned) = 2 =>
        /\ WithoutCreationTimes(returned[1]) = WithoutCreationTimes(returned[2])
        /\ returned[1].nameNodes = returned[2].nameNodes
        /\ returned[1].summary = returned[2].summary
        /\ \A i \in DOMAIN entities :
             /\ returned[1].entityNodes[i].description = returned[2].entityNodes[i].description
             /\ entities[i].category \in {"value", "document"} =>
                  returned[1].entityNodes[i] = returned[2].entityNodes[i]

\* two calls on one document, made at different times, returned different
\* batches
C9_Witness ==
    /\ Len(returned) = 2
    /\ returned[1] # returned[2]
    /\ \E i \in DOMAIN entities :
         /\ entities[i].category = "document"
         /\ returned[1].entityNodes[i] = returned[2].entityNodes[i]

\* ----------------------------------------------------------------- load run
theBatch == batch[1]

\* the requests of a whole run, in batch order
Tagged(p, ms) == [i \in DOMAIN ms |-> [phase |-> p, m |-> ms[i]]]

AllRequests == Tagged("phase1", theBatch.nameNodes) \o Tagged("phase2", theBatch.entityNodes)

\* C3: when a typed-node mutation is sent, every entry-node mutation of the
\* batch has been sent before it, in batch order; and if it carries a names
\* entry, an entry-node mutation for the same trimmed text is in the batch and
\* among those sent before.
C3_EntryNodesAttemptedFirst ==
    \A i \in DOMAIN sent :
        sent[i].phase = "phase2" =>
            LET n == Len(theBatch.nameNodes)
            IN  /\ i > n
                /\ \A j \in 1..n : sent[j] = [phase |-> "phase1", m |-> theBatch.nameNodes[j]]
                /\ sent[i].m.mutation.names # {} =>
                     /\ sent[i].m.mutation.names = {escapeGraphQL(trim(sent[i].m.description.text))}
                     /\ \E j \in 1..n :
                          /\ sent[j].m.mutation.add = "_Name_"
                          /\ sent[j].m.mutation.name = sent[i].m.mutation.names

\* a typed-node mutation with a names entry is in flight although an
\* entry-node request failed
C3_Witness ==
    /\ pc = "phase2"
    /\ nameFail > 0
    /\ \E m \in inflight : m.mutation.names # {}

RunComplete ==
    /\ pc = "exited"
    /\ exitSite \in {"warning", "return"}
    /\ inflight = {}
    /\ sent = AllRequests
    /\ nameSuccess + nameFail = Len(theBatch.nameNodes)
    /\ entitySuccess + entityFail = Len(theBatch.entityNodes)
    /\ nameFail = failures["phase1"]
    /\ entityFail = failures["phase2"]

\* C4: once the phases have started, and given that every request returns,
\* the run completes whatever requests fail: every entry-node and typed-node
\* mutation has been sent exactly once in batch order, each failed request is
\* counted as one failure, and successes + failures of a phase is the phase's
\* number of mutations.
C4_FailuresNeverStopTheRun == (pc \in Phases) ~> RunComplete

\* a run completed although a request failed in each of the two phases
C4_Witness ==
    /\ RunComplete
    /\ failures["phase1"] > 0
    /\ failures["phase2"] > 0
    /\ nameSuccess + entitySuccess > 0

\* C5: the load CLI exits with status 1 whenever an entry-node or typed-node
\* request failed; that exit is taken only after every mutation of the phases
\* has been attempted; a completed run without such a failure ends with
\* status 0.
C5_ExitStatus ==
    LET failed == failures["phase1"] + failures["phase2"] > 0
        complete == sent = AllRequests /\ inflight = {}
    IN  pc = "exited" =>
            /\ failed => exitCode = {1}
            /\ exitSite = "warning" => exitCode = {1} /\ failed /\ complete
            /\ exitSite = "return" => exitCode = {0} /\ ~failed /\ complete
            /\ exitSite \in {"warning", "return"} /\ ~failed => exitCode = {0}

\* a run whose only failure was a typed-node request took the failure exit
C5_Witness ==
    /\ pc = "exited"
    /\ exitSite = "warning"
    /\ exitCode = {1}
    /\ failures["phase1"] = 0
    /\ failures["phase2"] > 0

\* C7: the batch's relationship-mutation sequence is empty whether or not the
\* document has relationships, and the load run never enters phase 3 nor
\* sends a phase-3 request.
C7_NoRelationshipMutations ==
    /\ \A r \in DOMAIN batch : batch[r].relationships = <<>>
    /\ pc # "phase3"
    /\ relSuccess = 0 /\ relFail = 0
    /\ \A i \in DOMAIN sent : sent[i].phase # "phase3"

\* a run over a document with relationships completed
C7_Witness ==
    /\ pc = "exited"
    /\ exitSite \in {"warning", "return"}
    /\ Len(annotation.relationships) > 0
    /\ Len(sent) > 0

\* ------------------------------------------------------------------ escaping
\* the characters a backslash may precede in a string literal of the wire
\* format, among those of the alphabet, and what each pair stands for
EscapedCharacter(c) ==
    CASE c = "\\" -> "\\"
      [] c = "\"" -> "\""
      [] c = "n" -> "\n"
      [] c = "r" -> "\r"
      [] c = "t" -> "\t"

EscapeLetters == {"\\", "\"", "n", "r", "t"}

\* s is the inside of a well-formed string literal: no bare quote or line
\* terminator, and every backslash starts an escape pair
RECURSIVE IsStringLiteralBody(_)
IsStringLiteralBody(s) ==
    IF s = <<>> THEN TRUE
    ELSE IF Head(s) = "\\"
         THEN /\ Len(s) >= 2
              /\ s[2] \in EscapeLetters
              /\ IsStringLiteralBody(Tail(Tail(s)))
         ELSE /\ Head(s) \notin {"\"", "\n", "\r"}
              /\ IsStringLiteralBody(Tail(s))

\* the value the wire format's parser reads from a well-formed literal body
RECURSIVE ParseStringLiteralBody(_)
ParseStringLiteralBody(s) ==
    IF s = <<>> THEN <<>>
    ELSE IF Head(s) = "\\"
         THEN <<EscapedCharacter(s[2])>> \o ParseStringLiteralBody(Tail(Tail(s)))
         ELSE <<Head(s)>> \o ParseStringLiteralBody(Tail(s))

\* C11: for every text over ordinary characters and backslash, double quote,
\* newline, carriage return and tab, escapeGraphQL gives a well-formed string
\* literal body that the wire format's parser reads back as the text.
C11_EscapeRoundTrip ==
    \A k \in DOMAIN out :
        pc = "escape" =>
            /\ IsStringLiteralBody(out[k])
            /\ ParseStringLiteralBody(out[k]) = annotation.entities[1].text

\* a backslash followed by the letter n and a double quote: the input's own
\* backslash is doubled and is not read back as the start of a newline escape
C11_Witness ==
    /\ pc = "escape"
    /\ annotation.entities[1].text = <<"\\", "n", "\"">>
    /\ out = <<<<"\\", "\\", "n", "\\", "\"">>>>

\* --------------------------------------------------------------- identifiers
LowerOf(c) ==
    IF \E i \in 1..26 : UpperLetters[i] = c
    THEN LowerLetters[CHOOSE i \in 1..26 : UpperLetters[i] = c]
    ELSE c

\* the text between its first and its last non-whitespace character
Trimmed(t) ==
    LET solid == {i \in DOMAIN t : t[i] \notin Whitespace}
    IN  IF solid = {} THEN <<>>
        ELSE SubSeq(t, CHOOSE i \in solid : \A j \in solid : i <= j,
                       CHOOSE i \in solid : \A j \in solid : j <= i)

\* what position i of t contributes to the identifier: an underscore for the
\* first character of a whitespace run, the character itself if it is in
\* [a-z0-9_-], nothing otherwise
Contribution(t, i) ==
    IF t[i] \in Whitespace
    THEN (IF i > 1 /\ t[i - 1] \in Whitespace THEN <<>> ELSE <<"_">>)
    ELSE IF t[i] \in IdChars THEN <<t[i]>> ELSE <<>>

RECURSIVE ContributionsFrom(_, _)
ContributionsFrom(t, i) ==
    IF i > Len(t) THEN <<>> ELSE Contribution(t, i) \o ContributionsFrom(t, i + 1)

NormalizedText(text) ==
    ContributionsFrom(Trimmed([i \in DOMAIN text |-> LowerOf(text[i])]), 1)

ExpectedNameId(e) ==
    CATEGORY_TYPE_MAP[e.category].nameIdPrefix \o <<":", ":">> \o NormalizedText(e.text)

ExampleNameId ==
    <<"o", "r", "g", ":", ":", "n", "a", "t", "i", "o", "n", "a", "l", "_",
      "h", "e", "a", "l", "t", "h", "_", "a", "u", "t", "h", "o", "r", "i", "t", "y", "_",
      "n", "h", "a">>

\* C12: an entity's identifier is its category's prefix, '::', and its text
\* lowercased, trimmed, with each whitespace run turned into one underscore and
\* the characters outside [a-z0-9_-] removed; two entities of one category and
\* text get the same identifier whatever their ids, offsets or document, and
\* share one entry-node mutation (the organization 'National Health Authority
\* (NHA)' gets 'org::national_health_authority_nha').
C12_IdentifierOfCategoryAndText ==
    pc = "nameId" /\ out # <<>> =>
        /\ DOMAIN out = DOMAIN annotation.entities
        /\ \A i \in DOMAIN out : out[i] = ExpectedNameId(annotation.entities[i])
        /\ \A i, j \in DOMAIN out :
             (/\ annotation.entities[i].category = annotation.entities[j].category
              /\ annotation.entities[i].text = annotation.entities[j].text)
                 => out[i] = out[j]
        /\ Len(generateNameMutations(annotation.entities)) = 1
        /\ (/\ annotation.entities[1].text = ExampleText
            /\ annotation.entities[1].category = "organization")
               => out = <<ExampleNameId, ExampleNameId>>

\* the example: two organization entities with the example text and different
\* ids got the example identifier
C12_Witness ==
    /\ pc = "nameId"
    /\ annotation.entities[1].text = ExampleText
    /\ annotation.entities[1].category = "organization"
    /\ annotation.entities[1].id # annotation.entities[2].id
    /\ out = <<ExampleNameId, ExampleNameId>>

====
